---- MODULE Spec2Model ----
(***************************************************************************)
(* Model of the INSIGMAAI model adapters (rerank, text embedding,          *)
(* speech-to-text, text-to-speech).                                        *)
(*                                                                         *)
(* Python strings are sequences of one-character strings, so that rstrip,  *)
(* strip and removesuffix work character by character as in CPython.       *)
(* A credentials dict lives in a heap of dict objects (a sequence indexed  *)
(* by reference), so that dict.copy() and item assignment can be told      *)
(* apart from mutation of the caller's object.                             *)
(***************************************************************************)
EXTENDS Integers, Sequences, FiniteSets, TLC

VARIABLES pc, call, heap, outcome

vars == <<pc, call, heap, outcome>>

----------------------------------------------------------------------------
(* Bounds of the model *)

\* number of path pieces appended to the host in an enumerated endpoint_url
MaxPieces == 2

\* length of the provider's "results" list in an enumerated rerank response
MaxResults == 2

----------------------------------------------------------------------------
(* Python built-ins *)

\* Optional[T]: None is the empty tuple, a value v is <<v>>
None == <<>>

Some(v) == <<v>>

\* str.endswith(suffix)
EndsWith(s, suffix) ==
    /\ Len(s) >= Len(suffix)
    /\ SubSeq(s, Len(s) - Len(suffix) + 1, Len(s)) = suffix

\* str.removesuffix(suffix): drops the suffix once when the string ends with it
removesuffix(s, suffix) ==
    IF Len(suffix) > 0 /\ EndsWith(s, suffix)
    THEN SubSeq(s, 1, Len(s) - Len(suffix))
    ELSE s

\* str.rstrip(chars): drops every trailing character that is in chars
RECURSIVE rstrip(_, _)
rstrip(s, chars) ==
    IF Len(s) > 0 /\ s[Len(s)] \in chars
    THEN rstrip(SubSeq(s, 1, Len(s) - 1), chars)
    ELSE s

\* str.lstrip(chars)
RECURSIVE lstrip(_, _)
lstrip(s, chars) ==
    IF Len(s) > 0 /\ s[1] \in chars
    THEN lstrip(SubSeq(s, 2, Len(s)), chars)
    ELSE s

Whitespace == {" "}

\* str.strip(): drops leading and trailing whitespace
strip(s) == lstrip(rstrip(s, Whitespace), Whitespace)

\* list indexing lst[i] with Python's negative indices: whether i is in range
\* (IndexError otherwise), and the element
PyIndexOk(lst, i) == -Len(lst) <= i /\ i < Len(lst)

PyIndex(lst, i) == IF i >= 0 THEN lst[i + 1] ELSE lst[Len(lst) + i + 1]

\* dict.get(key, default)
DictGet(d, key, default) == IF key \in DOMAIN d THEN d[key] ELSE default

\* mutant of DictCopy: no copy is made, the name is bound to the same object
DictCopyAlias(h, ref) == h

\* dict.copy(): a new dict object at a fresh reference, same items
DictCopy(h, ref) == Append(h, h[ref])

\* d[key] = value on the dict object at ref
DictSetItem(h, ref, key, value) ==
    [h EXCEPT ![ref] = [k \in DOMAIN @ \cup {key} |-> IF k = key THEN value ELSE @[k]]]

\* an exception object: its class and str(e)
Exc(cls, msg) == [cls |-> cls, msg |-> msg]

NoExc == Exc("None", <<>>)

\* KeyError raised by d["endpoint_url"] on a dict without that key
KeyErrorEndpoint == Exc("KeyError", <<"'endpoint_url'">>)

----------------------------------------------------------------------------
(* The version suffixes and the endpoint normalizer *)

SuffixV1 == <<"/", "v", "1">>

SuffixV1Slash == <<"/", "v", "1", "/">>

SuffixV1OpenAI == <<"/", "v", "1", "-", "o", "p", "e", "n", "a", "i">>

SuffixV1OpenAISlash == <<"/", "v", "1", "-", "o", "p", "e", "n", "a", "i", "/">>

SuffixOpenAIV1 == <<"/", "o", "p", "e", "n", "a", "i", "-", "v", "1">>

SuffixOpenAIV1Slash == <<"/", "o", "p", "e", "n", "a", "i", "-", "v", "1", "/">>

\* the six recognized suffixes
RecognizedSuffixes ==
    {SuffixV1, SuffixV1Slash, SuffixV1OpenAI, SuffixV1OpenAISlash,
     SuffixOpenAIV1, SuffixOpenAIV1Slash}

\* the chain  .rstrip("/").removesuffix("/v1").removesuffix("/v1/")
\*            .removesuffix("/v1-openai").removesuffix("/v1-openai/")
\*            .removesuffix("/openai-v1").removesuffix("/openai-v1/")
StripVersionSuffixes(url) ==
    removesuffix(
      removesuffix(
        removesuffix(
          removesuffix(
            removesuffix(
              removesuffix(rstrip(url, {"/"}), SuffixV1),
              SuffixV1Slash),
            SuffixV1OpenAI),
          SuffixV1OpenAISlash),
        SuffixOpenAIV1),
      SuffixOpenAIV1Slash)

\* f"{base_url}/v1"
OpenAICompatUrl(url) == StripVersionSuffixes(url) \o SuffixV1

----------------------------------------------------------------------------
(* What a handler leaves behind: the heap, how it ended (return / raise),  *)
(* the HTTP requests it sent, the calls it made to the base class, and the *)
(* log records it wrote.                                                   *)

Returned(h, value, requests, delegated, log) ==
    [heap |-> h, kind |-> "return", value |-> value, exc |-> NoExc,
     requests |-> requests, delegated |-> delegated, log |-> log]

Raised(h, exc, requests, delegated, log) ==
    [heap |-> h, kind |-> "raise", value |-> None, exc |-> exc,
     requests |-> requests, delegated |-> delegated, log |-> log]

----------------------------------------------------------------------------
(* Exception classes: the direct base classes of each class used by the    *)
(* adapters, their HTTP client (requests) and the classes named in the     *)
(* except clause and the mapping table (httpx, dify_plugin.errors.model).  *)

ExceptionBases(cls) ==
    CASE cls = "requests.HTTPError" -> {"requests.RequestException"}
      [] cls = "requests.ConnectionError" -> {"requests.RequestException"}
      [] cls = "requests.JSONDecodeError" -> {"requests.RequestException", "ValueError"}
      [] cls = "requests.RequestException" -> {"OSError"}
      [] cls = "httpx.HTTPStatusError" -> {"httpx.HTTPError"}
      [] cls = "httpx.ConnectError" -> {"httpx.RequestError"}
      [] cls = "httpx.RemoteProtocolError" -> {"httpx.RequestError"}
      [] cls = "httpx.RequestError" -> {"httpx.HTTPError"}
      [] cls = "KeyError" -> {"LookupError"}
      [] cls = "IndexError" -> {"LookupError"}
      [] cls = "InvokeConnectionError" -> {"InvokeError"}
      [] cls = "InvokeServerUnavailableError" -> {"InvokeError"}
      [] cls = "InvokeRateLimitError" -> {"InvokeError"}
      [] cls = "InvokeAuthorizationError" -> {"InvokeError"}
      [] cls = "InvokeBadRequestError" -> {"InvokeError"}
      [] cls = "CredentialsValidateFailedError" -> {"ValueError"}
      [] cls = "Exception" -> {}
      [] OTHER -> {"Exception"}

\* isinstance(e, target) for an exception of class cls
RECURSIVE IsInstance(_, _)
IsInstance(cls, target) ==
    \/ cls = target
    \/ \E b \in ExceptionBases(cls) : IsInstance(b, target)

\* the class named by  except httpx.HTTPStatusError as e  in _invoke
CaughtInInvoke == "httpx.HTTPStatusError"

\* the dict returned by _invoke_error_mapping, in its insertion order
InvokeErrorMapping ==
    << [error |-> "InvokeConnectionError", types |-> {"httpx.ConnectError"}],
       [error |-> "InvokeServerUnavailableError", types |-> {"httpx.RemoteProtocolError"}],
       [error |-> "InvokeRateLimitError", types |-> {}],
       [error |-> "InvokeAuthorizationError", types |-> {"httpx.HTTPStatusError"}],
       [error |-> "InvokeBadRequestError", types |-> {"httpx.RequestError"}] >>

\* The host's use of the table on an exception that escaped _invoke: the
\* error kind of the first entry one of whose types the exception is an
\* instance of; with no such entry the host reports the generic InvokeError.
TransformInvokeError(exc) ==
    LET hits == {i \in DOMAIN InvokeErrorMapping :
                   \E t \in InvokeErrorMapping[i].types : IsInstance(exc.cls, t)}
    IN  IF hits # {}
        THEN InvokeErrorMapping[CHOOSE i \in hits : \A j \in hits : i <= j].error
        ELSE "InvokeError"

----------------------------------------------------------------------------
(* The rerank adapter *)

\* top_n when the caller passes None
DefaultTopN == 3

\* credentials.get("timeout", 12)
DefaultTimeout == 12

\* credentials.get("context_size", 512)
DefaultContextSize == 512

\* RerankResult(model=..., docs=...)
RerankResult(model, docs) == [model |-> model, docs |-> docs]

\* RerankDocument(index=..., text=..., score=...)
RerankDocument(index, text, score) == [index |-> index, text |-> text, score |-> score]

\* requests' Response.raise_for_status(): HTTPError for 4xx and 5xx
RaisesForStatus(status) == 400 <= status /\ status < 600

\* mutant of RerankLoop: the filter keeps only scores above the threshold
RECURSIVE RerankLoopStrict(_, _, _, _, _)
RerankLoopStrict(results, docs, score_threshold, i, acc) ==
    IF i > Len(results)
    THEN [raised |-> FALSE, exc |-> NoExc, docs |-> acc]
    ELSE LET result == results[i]
             index == result.index
         IN  IF ~result.has_document /\ ~PyIndexOk(docs, index)
             THEN [raised |-> TRUE,
                   exc |-> Exc("IndexError", <<"list index out of range">>),
                   docs |-> acc]
             ELSE LET text == IF result.has_document
                              THEN result.document_text
                              ELSE PyIndex(docs, index)
                      score == result.relevance_score
                      rerank_document == RerankDocument(index, text, score)
                  IN  RerankLoopStrict(results, docs, score_threshold, i + 1,
                                       IF score_threshold = None \/ score > score_threshold[1]
                                       THEN Append(acc, rerank_document)
                                       ELSE acc)

\* the for loop over results["results"]: entry i onwards, acc the list so far.
\* docs[index] raises IndexError when the entry has no "document" and the
\* index is out of range.
RECURSIVE RerankLoop(_, _, _, _, _)
RerankLoop(results, docs, score_threshold, i, acc) ==
    IF i > Len(results)
    THEN [raised |-> FALSE, exc |-> NoExc, docs |-> acc]
    ELSE LET result == results[i]
             index == result.index
         IN  IF ~result.has_document /\ ~PyIndexOk(docs, index)
             THEN [raised |-> TRUE,
                   exc |-> Exc("IndexError", <<"list index out of range">>),
                   docs |-> acc]
             ELSE LET text == IF result.has_document
                              THEN result.document_text
                              ELSE PyIndex(docs, index)
                      score == result.relevance_score
                      rerank_document == RerankDocument(index, text, score)
                  IN  RerankLoop(results, docs, score_threshold, i + 1,
                                 IF score_threshold = None \/ score >= score_threshold[1]
                                 THEN Append(acc, rerank_document)
                                 ELSE acc)

\* the body of the try block after the request was built: what the transport
\* answered decides how it ends
RerankTry(model, docs, score_threshold, transport) ==
    IF transport.kind = "connect_error"
    THEN [raised |-> TRUE, exc |-> Exc("requests.ConnectionError", <<"connection refused">>),
          value |-> None]
    ELSE IF RaisesForStatus(transport.status)
    THEN [raised |-> TRUE,
          exc |-> Exc("requests.HTTPError", <<ToString(transport.status), " Error">>),
          value |-> None]
    ELSE IF ~transport.body.is_json
    THEN [raised |-> TRUE, exc |-> Exc("requests.JSONDecodeError", <<"Expecting value">>),
          value |-> None]
    ELSE IF ~transport.body.has_results
    THEN [raised |-> TRUE, exc |-> Exc("KeyError", <<"'results'">>), value |-> None]
    ELSE LET loop == RerankLoop(transport.body.results, docs, score_threshold, 1, <<>>)
         IN  IF loop.raised
             THEN [raised |-> TRUE, exc |-> loop.exc, value |-> None]
             ELSE [raised |-> FALSE, exc |-> NoExc,
                   value |-> RerankResult(model, loop.docs)]

\* mutant of RerankTopN: the default replaces every falsy top_n (if not top_n)
RerankTopNFalsy(top_n) ==
    IF top_n = None \/ top_n[1] = 0 THEN DefaultTopN ELSE top_n[1]

\* if top_n is None: top_n = 3
RerankTopN(top_n) == IF top_n = None THEN DefaultTopN ELSE top_n[1]

\* INSIGMAAIRerankModel._invoke after the empty-docs check: builds the
\* request, posts it, and turns the answer into the result
Rerank_post(h, model, credentials, query, docs, score_threshold, top_n, user, transport) ==
    LET top == RerankTopN(top_n)
        m == strip(model)
    IN  IF "endpoint_url" \notin DOMAIN h[credentials]
        THEN Raised(h, KeyErrorEndpoint, <<>>, <<>>, <<>>)
        ELSE
        LET endpoint_url == StripVersionSuffixes(h[credentials]["endpoint_url"])
            headers == [Authorization |-> <<"Bearer ", DictGet(h[credentials], "api_key", "None")>>,
                        ContentType |-> "application/json"]
            data == [model |-> m, query |-> query, documents |-> docs, top_n |-> top]
            timeout == DictGet(h[credentials], "timeout", DefaultTimeout)
            request == [method |-> "POST", base |-> endpoint_url,
                        path |-> <<"v1", "rerank">>, headers |-> headers,
                        data |-> data, timeout |-> timeout]
            try == RerankTry(m, docs, score_threshold, transport)
        IN  IF ~try.raised
            THEN Returned(h, try.value, <<request>>, <<>>, <<>>)
            ELSE IF IsInstance(try.exc.cls, CaughtInInvoke)
            THEN Raised(h, Exc("InvokeServerUnavailableError", try.exc.msg),
                        <<request>>, <<>>, <<>>)
            ELSE Raised(h, try.exc, <<request>>, <<>>, <<>>)

\* mutant of Rerank_invoke: the empty-docs check is missing
Rerank_invoke_unchecked(h, model, credentials, query, docs, score_threshold, top_n, user, transport) ==
    Rerank_post(h, model, credentials, query, docs, score_threshold, top_n, user, transport)

\* INSIGMAAIRerankModel._invoke
Rerank_invoke(h, model, credentials, query, docs, score_threshold, top_n, user, transport) ==
    IF Len(docs) = 0
    THEN Returned(h, RerankResult(model, <<>>), <<>>, <<>>, <<>>)
    ELSE Rerank_post(h, model, credentials, query, docs, score_threshold, top_n, user,
                     transport)

\* the smoke test of validate_credentials
ValidateQuery == "capital?"

ValidateDocs == <<"Beijing", "Shanghai">>

\* score_threshold=0.8, in hundredths
ValidateScoreThreshold == 80

\* f"凭证验证失败: {str(ex)}"
ValidateFailedMessage(msg) == <<"validate failed: ">> \o msg

\* mutant of Rerank_validate_credentials: except InvokeError instead of
\* except Exception
Rerank_validate_credentials_narrow(h, model, credentials, transport) ==
    LET r == Rerank_invoke(h, model, credentials, ValidateQuery, ValidateDocs,
                           Some(ValidateScoreThreshold), None, None, transport)
    IN  IF r.kind = "raise" /\ IsInstance(r.exc.cls, "InvokeError")
        THEN Raised(r.heap,
                    Exc("CredentialsValidateFailedError", ValidateFailedMessage(r.exc.msg)),
                    r.requests, r.delegated, r.log)
        ELSE IF r.kind = "raise"
        THEN r
        ELSE Returned(r.heap, None, r.requests, r.delegated, r.log)

\* INSIGMAAIRerankModel.validate_credentials: except Exception catches
\* whatever _invoke raises
Rerank_validate_credentials(h, model, credentials, transport) ==
    LET r == Rerank_invoke(h, model, credentials, ValidateQuery, ValidateDocs,
                           Some(ValidateScoreThreshold), None, None, transport)
    IN  IF r.kind = "raise" /\ IsInstance(r.exc.cls, "Exception")
        THEN Raised(r.heap,
                    Exc("CredentialsValidateFailedError", ValidateFailedMessage(r.exc.msg)),
                    r.requests, r.delegated, r.log)
        ELSE IF r.kind = "raise"
        THEN r
        ELSE Returned(r.heap, None, r.requests, r.delegated, r.log)

\* INSIGMAAIRerankModel.get_customizable_model_schema
Rerank_get_customizable_model_schema(h, model, credentials) ==
    Returned(h,
             [model |-> model, label |-> model, model_type |-> "rerank",
              fetch_from |-> "customizable-model",
              context_size |-> DictGet(h[credentials], "context_size", DefaultContextSize)],
             <<>>, <<>>, <<>>)

----------------------------------------------------------------------------
(* The OpenAI-compatible adapters: each normalizes the credentials and     *)
(* hands them to the base class.  What the base class call does is the     *)
(* environment's choice: it returns a value or raises.                     *)

\* one call to a base-class method: its name, the model name and the
\* credentials object it was given, and where the audio stream stood
Delegation(method, model, credentials, file_pos) ==
    [method |-> method, model |-> model, credentials |-> credentials,
     file_pos |-> file_pos]

\* the end of a handler that returns whatever super().method(...) returns,
\* and lets whatever it raises escape
DelegateEnd(h, delegation, delegate, log) ==
    IF delegate.kind = "raise"
    THEN Raised(h, delegate.exc, <<>>, <<delegation>>, log)
    ELSE Returned(h, delegate.value, <<>>, <<delegation>>, log)

\* INSIGMAAITextEmbeddingModel._get_compatible_credentials:
\* credentials = credentials.copy(); the url is read from and written to the copy
Embedding_get_compatible_credentials(h, credentials) ==
    LET h1 == DictCopy(h, credentials)
        copy == Len(h1)
    IN  IF "endpoint_url" \notin DOMAIN h1[copy]
        THEN [heap |-> h1, raised |-> TRUE, exc |-> KeyErrorEndpoint, credentials |-> copy]
        ELSE [heap |-> DictSetItem(h1, copy, "endpoint_url",
                                   OpenAICompatUrl(h1[copy]["endpoint_url"])),
              raised |-> FALSE, exc |-> NoExc, credentials |-> copy]

\* INSIGMAAITextEmbeddingModel._invoke
Embedding_invoke(h, model, credentials, texts, user, input_type, delegate) ==
    LET compatible_credentials == Embedding_get_compatible_credentials(h, credentials)
    IN  IF compatible_credentials.raised
        THEN Raised(compatible_credentials.heap, compatible_credentials.exc, <<>>, <<>>, <<>>)
        ELSE DelegateEnd(compatible_credentials.heap,
                         Delegation("_invoke", model, compatible_credentials.credentials, None),
                         delegate, <<>>)

\* INSIGMAAITextEmbeddingModel.validate_credentials
Embedding_validate_credentials(h, model, credentials, delegate) ==
    LET compatible_credentials == Embedding_get_compatible_credentials(h, credentials)
    IN  IF compatible_credentials.raised
        THEN Raised(compatible_credentials.heap, compatible_credentials.exc, <<>>, <<>>, <<>>)
        ELSE DelegateEnd(compatible_credentials.heap,
                         Delegation("validate_credentials", model,
                                    compatible_credentials.credentials, None),
                         [delegate EXCEPT !.value = None], <<>>)

\* INSIGMAAITextToSpeechModel._standardize_endpoint_url:
\* standardize_credentials = credentials.copy(); the url is read from the
\* original and written to the copy
TTS_standardize_endpoint_url(h, credentials) ==
    LET h1 == DictCopy(h, credentials)
        standardize_credentials == Len(h1)
    IN  IF "endpoint_url" \notin DOMAIN h1[credentials]
        THEN [heap |-> h1, raised |-> TRUE, exc |-> KeyErrorEndpoint,
              credentials |-> standardize_credentials]
        ELSE [heap |-> DictSetItem(h1, standardize_credentials, "endpoint_url",
                                   OpenAICompatUrl(h1[credentials]["endpoint_url"])),
              raised |-> FALSE, exc |-> NoExc, credentials |-> standardize_credentials]

\* INSIGMAAITextToSpeechModel._invoke
TTS_invoke(h, model, tenant_id, credentials, content_text, voice, user, delegate) ==
    LET m == strip(model)
        standardize_credentials == TTS_standardize_endpoint_url(h, credentials)
    IN  IF standardize_credentials.raised
        THEN Raised(standardize_credentials.heap, standardize_credentials.exc, <<>>, <<>>, <<>>)
        ELSE DelegateEnd(standardize_credentials.heap,
                         Delegation("_invoke", m, standardize_credentials.credentials, None),
                         delegate, <<>>)

\* INSIGMAAITextToSpeechModel.validate_credentials
TTS_validate_credentials(h, model, credentials, user, delegate) ==
    LET standardize_credentials == TTS_standardize_endpoint_url(h, credentials)
    IN  IF standardize_credentials.raised
        THEN Raised(standardize_credentials.heap, standardize_credentials.exc, <<>>, <<>>, <<>>)
        ELSE DelegateEnd(standardize_credentials.heap,
                         Delegation("validate_credentials", model,
                                    standardize_credentials.credentials, None),
                         [delegate EXCEPT !.value = None], <<>>)

----------------------------------------------------------------------------
(* The speech-to-text adapter *)

\* one log record: the level, the message's fixed part and what it reports
LogRecord(level, event, detail) == [level |-> level, event |-> event, detail |-> detail]

\* mutant of FileSeek0: the stream is left where the caller had it
FileSeekOmitted(file) == [raised |-> FALSE, exc |-> NoExc, file |-> file]

\* file.seek(0): a closed stream raises ValueError, an open one moves to 0
FileSeek0(file) ==
    IF file.closed
    THEN [raised |-> TRUE, exc |-> Exc("ValueError", <<"I/O operation on closed file.">>),
          file |-> file]
    ELSE [raised |-> FALSE, exc |-> NoExc, file |-> [file EXCEPT !.pos = 0]]

\* INSIGMAAISpeechToTextModel._standardize_endpoint_url:
\* credentials = credentials.copy(); the url is read from and written to the copy
STT_standardize_endpoint_url(h, credentials) ==
    LET h1 == DictCopy(h, credentials)
        copy == Len(h1)
    IN  IF "endpoint_url" \notin DOMAIN h1[copy]
        THEN [heap |-> h1, raised |-> TRUE, exc |-> KeyErrorEndpoint, credentials |-> copy]
        ELSE [heap |-> DictSetItem(h1, copy, "endpoint_url",
                                   OpenAICompatUrl(h1[copy]["endpoint_url"])),
              raised |-> FALSE, exc |-> NoExc, credentials |-> copy]

\* the except Exception as e: logger.error(...); raise  of _invoke
STT_invoke_except(h, m, exc, delegated, log) ==
    Raised(h, exc, <<>>, delegated,
           Append(log, LogRecord("error", "invoke failed", exc.msg)))

\* INSIGMAAISpeechToTextModel._invoke
STT_invoke(h, model, credentials, file, user, delegate) ==
    LET m == strip(model)
        log0 == <<LogRecord("info", "invoke start", m)>>
        seek == FileSeek0(file)
    IN  IF seek.raised
        THEN STT_invoke_except(h, m, seek.exc, <<>>, log0)
        ELSE
        LET compatible_credentials == STT_standardize_endpoint_url(h, credentials)
            h1 == compatible_credentials.heap
        IN  IF compatible_credentials.raised
            THEN STT_invoke_except(h1, m, compatible_credentials.exc, <<>>, log0)
            ELSE
            LET endpoint == h1[compatible_credentials.credentials]["endpoint_url"]
                log1 == Append(log0, LogRecord("debug", "endpoint", endpoint))
                delegation == Delegation("_invoke", m, compatible_credentials.credentials,
                                         Some(seek.file.pos))
            IN  IF delegate.kind = "raise"
                THEN STT_invoke_except(h1, m, delegate.exc, <<delegation>>, log1)
                ELSE Returned(h1, delegate.value, <<>>, <<delegation>>,
                              Append(log1, LogRecord("info", "invoke ok", delegate.value)))

\* INSIGMAAISpeechToTextModel.validate_credentials
STT_validate_credentials(h, model, credentials, delegate) ==
    LET log0 == <<LogRecord("info", "validate start", model)>>
        compatible_credentials == STT_standardize_endpoint_url(h, credentials)
        h1 == compatible_credentials.heap
    IN  IF compatible_credentials.raised
        THEN Raised(h1, compatible_credentials.exc, <<>>, <<>>,
                    Append(log0, LogRecord("error", "validate failed",
                                           compatible_credentials.exc.msg)))
        ELSE
        LET endpoint == h1[compatible_credentials.credentials]["endpoint_url"]
            log1 == Append(log0, LogRecord("debug", "endpoint", endpoint))
            delegation == Delegation("validate_credentials", model,
                                     compatible_credentials.credentials, None)
        IN  IF delegate.kind = "raise"
            THEN Raised(h1, delegate.exc, <<>>, <<delegation>>,
                        Append(log1, LogRecord("error", "validate failed", delegate.exc.msg)))
            ELSE Returned(h1, None, <<>>, <<delegation>>,
                          Append(log1, LogRecord("info", "validate ok", model)))

\* INSIGMAAISpeechToTextModel.get_customizable_model_schema
STT_get_customizable_model_schema(h, model, credentials) ==
    Returned(h,
             [model |-> model, label |-> model, model_type |-> "speech2text",
              fetch_from |-> "customizable-model"],
             <<>>, <<>>,
             <<LogRecord("debug", "schema", model)>>)

----------------------------------------------------------------------------
(* The inputs the host and the environment may supply *)

\* "https://api.example.com"
Host ==
    <<"h", "t", "t", "p", "s", ":", "/", "/", "a", "p", "i", ".", "e", "x", "a", "m",
      "p", "l", "e", ".", "c", "o", "m">>

\* what a user may append to the host, any number of times
UrlPieces == {<<"/">>, SuffixV1, SuffixV1OpenAI, SuffixOpenAIV1}

\* the host followed by at most n pieces
RECURSIVE UrlsUpTo(_)
UrlsUpTo(n) ==
    IF n = 0
    THEN {Host}
    ELSE UrlsUpTo(n - 1) \cup {u \o p : u \in UrlsUpTo(n - 1), p \in UrlPieces}

EndpointUrls == UrlsUpTo(MaxPieces)

ApiKey == "sk-key"

\* credentials mappings the host may pass to the OpenAI-compatible adapters
CredentialsSet ==
    {[endpoint_url |-> u, api_key |-> ApiKey] : u \in EndpointUrls}
    \cup {[api_key |-> ApiKey]}
    \cup {[endpoint_url |-> Host \o SuffixV1OpenAI, api_key |-> ApiKey,
           timeout |-> 30, context_size |-> 1024]}

\* credentials mappings the host may pass to the rerank adapter
RerankCredentialsSet ==
    {[endpoint_url |-> Host \o SuffixV1OpenAISlash, api_key |-> ApiKey],
     [endpoint_url |-> Host \o SuffixV1OpenAI \o SuffixV1, api_key |-> ApiKey],
     [endpoint_url |-> Host \o SuffixV1 \o SuffixV1, api_key |-> ApiKey,
      timeout |-> 30, context_size |-> 1024],
     [endpoint_url |-> Host],
     [api_key |-> ApiKey]}

ModelNames == {<<"m">>, <<" ", "m", " ">>}

Queries == {"q"}

DocLists == {<<>>, <<"A", "B">>}

\* score_threshold, in hundredths
ScoreThresholds == {None, Some(50)}

TopNs == {None, Some(0), Some(5)}

\* one entry of the provider's "results": without a "document" object, or with one
ResultEntries ==
    {[index |-> i, relevance_score |-> sc, has_document |-> FALSE, document_text |-> ""] :
        i \in {0, 1, 2}, sc \in {30, 50, 92}}
    \cup {[index |-> 2, relevance_score |-> 92, has_document |-> TRUE, document_text |-> "D"],
          [index |-> 0, relevance_score |-> 30, has_document |-> TRUE, document_text |-> "D"]}

\* the lists of at most n entries
RECURSIVE ResultListsUpTo(_)
ResultListsUpTo(n) ==
    IF n = 0
    THEN {<<>>}
    ELSE ResultListsUpTo(n - 1)
         \cup {Append(l, e) : l \in ResultListsUpTo(n - 1), e \in ResultEntries}

ResponseBodies ==
    {[is_json |-> TRUE, has_results |-> TRUE, results |-> l] : l \in ResultListsUpTo(MaxResults)}
    \cup {[is_json |-> TRUE, has_results |-> FALSE, results |-> <<>>],
          [is_json |-> FALSE, has_results |-> FALSE, results |-> <<>>]}

ErrorBody == [is_json |-> FALSE, has_results |-> FALSE, results |-> <<>>]

\* what requests.post meets: no connection, or a response with a status and a body
Transports ==
    {[kind |-> "connect_error", status |-> 0, body |-> ErrorBody]}
    \cup {[kind |-> "response", status |-> 200, body |-> b] : b \in ResponseBodies}
    \cup {[kind |-> "response", status |-> st, body |-> ErrorBody] :
            st \in {400, 401, 403, 404, 500, 503}}

\* what a call to the base class may do
DelegateOutcomes ==
    {[kind |-> "return", value |-> <<"o", "k">>, exc |-> NoExc],
     [kind |-> "raise", value |-> None,
      exc |-> Exc("InvokeConnectionError", <<"unreachable">>)],
     [kind |-> "raise", value |-> None,
      exc |-> Exc("CredentialsValidateFailedError", <<"rejected">>)]}

\* largest read position the caller may have left the audio stream at
MaxFilePos == 2

Files == [pos : 0 .. MaxFilePos, closed : BOOLEAN]

----------------------------------------------------------------------------
(* The state machine: the host makes one call at a time with a credentials *)
(* dict it owns (the object at CallerRef), the handler runs to its end,    *)
(* and the host takes the outcome.                                         *)

\* the reference of the caller's credentials dict
CallerRef == 1

NoCall == [op |-> "none"]

NoOutcome == [kind |-> "none"]

Init ==
    /\ pc = "idle"
    /\ call = NoCall
    /\ heap = <<>>
    /\ outcome = NoOutcome

\* the handler ended as r: its effects become the state
Finish(c, r) ==
    /\ pc' = "done"
    /\ call' = c
    /\ heap' = r.heap
    /\ outcome' = [kind |-> r.kind, value |-> r.value, exc |-> r.exc,
                   requests |-> r.requests, delegated |-> r.delegated, log |-> r.log]

RerankInvoke ==
    /\ pc = "idle"
    /\ \E model \in ModelNames, c \in RerankCredentialsSet, query \in Queries,
          docs \in DocLists, score_threshold \in ScoreThresholds, top_n \in TopNs,
          transport \in Transports :
          Finish([op |-> "rerank._invoke", model |-> model, credentials |-> c,
                  query |-> query, docs |-> docs, score_threshold |-> score_threshold,
                  top_n |-> top_n, transport |-> transport],
                 Rerank_invoke(<<c>>, model, CallerRef, query, docs, score_threshold,
                               top_n, None, transport))

RerankValidate ==
    /\ pc = "idle"
    /\ \E model \in ModelNames, c \in RerankCredentialsSet, transport \in Transports :
          Finish([op |-> "rerank.validate_credentials", model |-> model,
                  credentials |-> c, transport |-> transport],
                 Rerank_validate_credentials(<<c>>, model, CallerRef, transport))

RerankSchema ==
    /\ pc = "idle"
    /\ \E model \in ModelNames, c \in RerankCredentialsSet :
          Finish([op |-> "rerank.get_customizable_model_schema", model |-> model,
                  credentials |-> c],
                 Rerank_get_customizable_model_schema(<<c>>, model, CallerRef))

EmbeddingInvoke ==
    /\ pc = "idle"
    /\ \E model \in ModelNames, c \in CredentialsSet, delegate \in DelegateOutcomes :
          Finish([op |-> "embedding._invoke", model |-> model, credentials |-> c,
                  delegate |-> delegate],
                 Embedding_invoke(<<c>>, model, CallerRef, <<"text">>, None, "document",
                                  delegate))

EmbeddingValidate ==
    /\ pc = "idle"
    /\ \E model \in ModelNames, c \in CredentialsSet, delegate \in DelegateOutcomes :
          Finish([op |-> "embedding.validate_credentials", model |-> model,
                  credentials |-> c, delegate |-> delegate],
                 Embedding_validate_credentials(<<c>>, model, CallerRef, delegate))

TTSInvoke ==
    /\ pc = "idle"
    /\ \E model \in ModelNames, c \in CredentialsSet, delegate \in DelegateOutcomes :
          Finish([op |-> "tts._invoke", model |-> model, credentials |-> c,
                  delegate |-> delegate],
                 TTS_invoke(<<c>>, model, "tenant", CallerRef, "hello", "voice", None,
                            delegate))

TTSValidate ==
    /\ pc = "idle"
    /\ \E model \in ModelNames, c \in CredentialsSet, delegate \in DelegateOutcomes :
          Finish([op |-> "tts.validate_credentials", model |-> model,
                  credentials |-> c, delegate |-> delegate],
                 TTS_validate_credentials(<<c>>, model, CallerRef, None, delegate))

STTInvoke ==
    /\ pc = "idle"
    /\ \E model \in ModelNames, c \in CredentialsSet, file \in Files,
          delegate \in DelegateOutcomes :
          Finish([op |-> "speech2text._invoke", model |-> model, credentials |-> c,
                  file |-> file, delegate |-> delegate],
                 STT_invoke(<<c>>, model, CallerRef, file, None, delegate))

STTValidate ==
    /\ pc = "idle"
    /\ \E model \in ModelNames, c \in CredentialsSet, delegate \in DelegateOutcomes :
          Finish([op |-> "speech2text.validate_credentials", model |-> model,
                  credentials |-> c, delegate |-> delegate],
                 STT_validate_credentials(<<c>>, model, CallerRef, delegate))

STTSchema ==
    /\ pc = "idle"
    /\ \E model \in ModelNames, c \in CredentialsSet :
          Finish([op |-> "speech2text.get_customizable_model_schema", model |-> model,
                  credentials |-> c],
                 STT_get_customizable_model_schema(<<c>>, model, CallerRef))

\* the host has taken the outcome; the call's objects are dropped
HostTakesOutcome ==
    /\ pc = "done"
    /\ pc' = "idle"
    /\ call' = NoCall
    /\ heap' = <<>>
    /\ outcome' = NoOutcome

Next ==
    \/ RerankInvoke
    \/ RerankValidate
    \/ RerankSchema
    \/ EmbeddingInvoke
    \/ EmbeddingValidate
    \/ TTSInvoke
    \/ TTSValidate
    \/ STTInvoke
    \/ STTValidate
    \/ STTSchema
    \/ HostTakesOutcome

Spec == Init /\ [][Next]_vars

----------------------------------------------------------------------------
(* Properties *)

Done(op) == pc = "done" /\ call.op = op

HasEndpoint == pc = "done" /\ "endpoint_url" \in DOMAIN call.credentials

\* a response the transport gave to a request that was sent
Answered(statuses) ==
    /\ Done("rerank._invoke")
    /\ outcome.requests # <<>>
    /\ call.transport.kind = "response"
    /\ call.transport.status \in statuses

\* the endpoint the adapter of operation op works with when the caller's
\* credentials hold url: the base of the rerank request, or the endpoint_url
\* of the credentials handed to the base class
NormalizedBy(op, url) ==
    LET c == [endpoint_url |-> url, api_key |-> ApiKey]
    IN  CASE op \in {"rerank._invoke", "rerank.validate_credentials"} ->
               Rerank_invoke(<<c>>, <<"m">>, CallerRef, "q", <<"A">>, None, None, None,
                             [kind |-> "connect_error", status |-> 0, body |-> ErrorBody]
                            ).requests[1].base
          [] op \in {"embedding._invoke", "embedding.validate_credentials"} ->
               LET r == Embedding_get_compatible_credentials(<<c>>, CallerRef)
               IN  r.heap[r.credentials]["endpoint_url"]
          [] op \in {"tts._invoke", "tts.validate_credentials"} ->
               LET r == TTS_standardize_endpoint_url(<<c>>, CallerRef)
               IN  r.heap[r.credentials]["endpoint_url"]
          [] OTHER ->
               LET r == STT_standardize_endpoint_url(<<c>>, CallerRef)
               IN  r.heap[r.credentials]["endpoint_url"]

\* the call normalized its endpoint: it sent a request or called the base class
Normalizing ==
    /\ HasEndpoint
    /\ (outcome.requests # <<>> \/ outcome.delegated # <<>>)

\* the endpoint the call worked with
NormalizedEndpoint ==
    IF outcome.requests # <<>>
    THEN outcome.requests[1].base
    ELSE heap[outcome.delegated[1].credentials]["endpoint_url"]

\* C1: endpoint normalization is idempotent in both flavors: normalizing the
\* endpoint a call has normalized gives that same endpoint again, for the
\* rerank flavor (bare base) and the OpenAI-compatible flavor (base + "/v1").
C1_NormalizationIdempotent ==
    Normalizing => NormalizedBy(call.op, NormalizedEndpoint) = NormalizedEndpoint

\* C2: for every base b and recognized suffix s, normalizing b + s gives the
\* same result whichever of the six suffixes was appended, also when b itself
\* ends in a recognized suffix.
C2_SuffixVariantIrrelevant ==
    Normalizing =>
        LET u == call.credentials["endpoint_url"]
        IN  \A s1 \in RecognizedSuffixes :
                EndsWith(u, s1) =>
                    \A s2 \in RecognizedSuffixes :
                        NormalizedBy(call.op, removesuffix(u, s1) \o s2) = NormalizedEndpoint

\* C3: when the provider answers the rerank request with HTTP 503, _invoke
\* raises InvokeServerUnavailableError and nothing else.
C3_Status503RaisesServerUnavailable ==
    Answered({503}) =>
        /\ outcome.kind = "raise"
        /\ outcome.exc.cls = "InvokeServerUnavailableError"

\* C4: a rerank call answered with a status error outside the 5xx class
\* (400, 401, 403, 404) is reported to the host as InvokeAuthorizationError
\* through the mapping table.
C4_ClientStatusReportedUnauthorized ==
    Answered({400, 401, 403, 404}) =>
        /\ outcome.kind = "raise"
        /\ TransformInvokeError(outcome.exc) = "InvokeAuthorizationError"

\* the credentials objects handed to the base class by the call
DelegatedRefs == {outcome.delegated[i].credentials : i \in DOMAIN outcome.delegated}

\* C5: no adapter operation mutates the caller's credentials mapping: after
\* the call every key of the caller's dict holds the value it had before, and
\* the dict handed to the base class is another object that differs from the
\* caller's at most in endpoint_url.
C5_CallerCredentialsUnchanged ==
    pc = "done" =>
        /\ heap[CallerRef] = call.credentials
        /\ \A ref \in DelegatedRefs :
              /\ ref # CallerRef
              /\ DOMAIN heap[ref] = DOMAIN call.credentials
              /\ \A k \in DOMAIN heap[ref] \ {"endpoint_url"} :
                    heap[ref][k] = call.credentials[k]

\* a call whose normalizer rewrote endpoint_url in the copy it handed on,
\* next to other keys
C5_Witness ==
    /\ Done("tts._invoke")
    /\ "timeout" \in DOMAIN call.credentials
    /\ \E ref \in DelegatedRefs :
          heap[ref]["endpoint_url"] # call.credentials["endpoint_url"]

\* what the filter of the claim keeps of the provider's entries, in the
\* provider's order
ExpectedDocs(results, docs, score_threshold) ==
    LET kept == SelectSeq(results,
                          LAMBDA e : score_threshold = None
                                     \/ ~(e.relevance_score < score_threshold[1]))
    IN  [i \in 1 .. Len(kept) |->
            [index |-> kept[i].index,
             text |-> IF kept[i].has_document THEN kept[i].document_text
                      ELSE docs[kept[i].index + 1],
             score |-> kept[i].relevance_score]]

\* a rerank _invoke that returned a result built from a provider response
RerankSucceeded ==
    /\ Done("rerank._invoke")
    /\ outcome.kind = "return"
    /\ outcome.requests # <<>>

\* C6: a successful rerank _invoke returns exactly the provider's entries
\* whose score is not below score_threshold (all of them when it is unset),
\* in the provider's order, each with the entry's index and relevance_score
\* and with document.text, or docs[index] when the entry has no document.
C6_ResultIsFilteredProviderOrder ==
    RerankSucceeded =>
        /\ outcome.value.docs
             = ExpectedDocs(call.transport.body.results, call.docs, call.score_threshold)
        /\ call.score_threshold # None =>
              \A i \in DOMAIN outcome.value.docs :
                  outcome.value.docs[i].score >= call.score_threshold[1]
        /\ call.score_threshold = None =>
              Len(outcome.value.docs) = Len(call.transport.body.results)

\* the scenario of the specification: results (1, 0.92), (0, 0.3), docs A, B,
\* threshold 0.5 give the single document index 1, text B, score 0.92
C6_Witness ==
    /\ RerankSucceeded
    /\ call.docs = <<"A", "B">>
    /\ call.score_threshold = Some(50)
    /\ Len(call.transport.body.results) = 2
    /\ call.transport.body.results[1].index = 1
    /\ call.transport.body.results[1].relevance_score = 92
    /\ ~call.transport.body.results[1].has_document
    /\ call.transport.body.results[2].index = 0
    /\ call.transport.body.results[2].relevance_score = 30
    /\ outcome.value.docs = <<[index |-> 1, text |-> "B", score |-> 92]>>

\* C7: rerank _invoke with docs = [] returns a result with no documents and
\* sends no HTTP request, whatever the model, thresholds and credentials.
C7_EmptyDocsNoRequest ==
    (Done("rerank._invoke") /\ call.docs = <<>>) =>
        /\ outcome.kind = "return"
        /\ outcome.value.docs = <<>>
        /\ outcome.requests = <<>>

\* empty docs with credentials that lack endpoint_url
C7_Witness ==
    /\ Done("rerank._invoke")
    /\ call.docs = <<>>
    /\ "endpoint_url" \notin DOMAIN call.credentials
    /\ outcome.kind = "return"

\* sub occurs in msg as a run of consecutive elements
Contains(msg, sub) ==
    \E i \in 1 .. Len(msg) - Len(sub) + 1 : SubSeq(msg, i, i + Len(sub) - 1) = sub

\* the smoke-test _invoke of the validate_credentials call in the state
SmokeTest ==
    Rerank_invoke(<<call.credentials>>, call.model, CallerRef, ValidateQuery, ValidateDocs,
                  Some(80), None, None, call.transport)

\* C8: rerank validate_credentials lets nothing but
\* CredentialsValidateFailedError escape: whatever the smoke-test _invoke
\* raises comes out as that error with the original message text in its
\* message, and it returns normally only if _invoke returned normally.
C8_ValidateWrapsEveryException ==
    Done("rerank.validate_credentials") =>
        /\ outcome.kind \in {"return", "raise"}
        /\ outcome.kind = "return" <=> SmokeTest.kind = "return"
        /\ outcome.kind = "raise" =>
              /\ outcome.exc.cls = "CredentialsValidateFailedError"
              /\ Len(SmokeTest.exc.msg) > 0
              /\ Contains(outcome.exc.msg, SmokeTest.exc.msg)

\* a validation whose smoke test raised something that is no InvokeError
C8_Witness ==
    /\ Done("rerank.validate_credentials")
    /\ outcome.kind = "raise"
    /\ SmokeTest.exc.cls = "IndexError"
    /\ outcome.exc.cls = "CredentialsValidateFailedError"

\* a rerank _invoke that got as far as posting
RerankPosted ==
    /\ Done("rerank._invoke")
    /\ call.docs # <<>>
    /\ "endpoint_url" \in DOMAIN call.credentials

\* C9: with non-empty docs the one request body carries top_n = 3 when the
\* caller passed None and the caller's value otherwise (0 included), the
\* trimmed model name, and docs unchanged and in order; it goes to the
\* normalized base followed by v1/rerank.
C9_RequestBodyTopN ==
    RerankPosted =>
        /\ Len(outcome.requests) = 1
        /\ outcome.requests[1].data.top_n
             = (IF call.top_n = None THEN 3 ELSE call.top_n[1])
        /\ outcome.requests[1].data.model = strip(call.model)
        /\ outcome.requests[1].data.documents = call.docs
        /\ outcome.requests[1].data.query = call.query
        /\ outcome.requests[1].path = <<"v1", "rerank">>

\* a caller's top_n of 0 that reached the request body, with a trimmed model
C9_Witness ==
    /\ RerankPosted
    /\ call.top_n = Some(0)
    /\ outcome.requests[1].data.top_n = 0
    /\ call.model # outcome.requests[1].data.model

\* the call wrote an error record for the exception it raised
LoggedFailure ==
    /\ outcome.kind = "raise"
    /\ outcome.log # <<>>
    /\ outcome.log[Len(outcome.log)].level = "error"
    /\ outcome.log[Len(outcome.log)].detail = outcome.exc.msg

\* C10: in speech-to-text _invoke the stream stands at 0 when the base
\* transcription is called, the base class is called at most once and with
\* the normalized copy of the credentials; a failing seek, normalization or
\* base call is logged and the same exception is raised to the caller; the
\* base class is not called after a failed seek or normalization.
C10_SeekBeforeDelegateAndReraise ==
    Done("speech2text._invoke") =>
        /\ Len(outcome.delegated) <= 1
        /\ \A i \in DOMAIN outcome.delegated :
              /\ outcome.delegated[i].file_pos = Some(0)
              /\ outcome.delegated[i].method = "_invoke"
              /\ outcome.delegated[i].credentials # CallerRef
              /\ heap[outcome.delegated[i].credentials]["endpoint_url"]
                    = OpenAICompatUrl(call.credentials["endpoint_url"])
        /\ call.file.closed =>
              /\ outcome.delegated = <<>>
              /\ outcome.exc.cls = "ValueError"
              /\ LoggedFailure
        /\ (~call.file.closed /\ "endpoint_url" \notin DOMAIN call.credentials) =>
              /\ outcome.delegated = <<>>
              /\ outcome.exc = KeyErrorEndpoint
              /\ LoggedFailure
        /\ (~call.file.closed /\ "endpoint_url" \in DOMAIN call.credentials) =>
              /\ Len(outcome.delegated) = 1
              /\ call.delegate.kind = "raise" =>
                    (outcome.exc = call.delegate.exc /\ LoggedFailure)
              /\ call.delegate.kind = "return" =>
                    (outcome.kind = "return" /\ outcome.value = call.delegate.value)

\* a partly consumed stream whose transcription was delegated and failed
C10_Witness ==
    /\ Done("speech2text._invoke")
    /\ call.file.pos > 0
    /\ Len(outcome.delegated) = 1
    /\ outcome.delegated[1].file_pos = Some(0)
    /\ outcome.kind = "raise"
    /\ outcome.exc = call.delegate.exc

====
